---------------------------- MODULE Spec2Model ----------------------------
(***************************************************************************)
(* Model of pi-open-sessions-files-extension (src/open-session-files.ts).  *)
(*                                                                         *)
(* Strings are sequences of one-character strings, so that trimming,       *)
(* escaping, placeholder substitution and prefix stripping are computed    *)
(* character by character as the code computes them.                       *)
(*                                                                         *)
(* Four specifications share the module, one per component:                *)
(*   SpecSettings  loadSettings                                           *)
(*   SpecExtract   getSessionEditedFiles                                  *)
(*   SpecCmd       buildOpenCommand / shellEscape                         *)
(*   SpecFlow      openFilePicker: picker, stale check, launch            *)
(***************************************************************************)
EXTENDS Integers, Sequences, FiniteSets, TLC

VARIABLES
  \* loadSettings
  spc, env, settingsFiles, merged,
  \* getSessionEditedFiles
  epc, entry, blocksLeft, scanned, curBlock, seen, files, expect, ignored, malformedSeen,
  \* buildOpenCommand
  cpc, cmdIn, command,
  \* openFilePicker
  fpc, sessionFiles, disk, flowSettings, candidates, filter, list, selected,
  doneLog, lastKey, openDisk, checked, notes, fgStep, tuiActive, tuiLog, launches

settingsVars == <<spc, env, settingsFiles, merged>>
extractVars == <<epc, entry, blocksLeft, scanned, curBlock, seen, files, expect, ignored, malformedSeen>>
cmdVars == <<cpc, cmdIn, command>>
pickerVars == <<candidates, filter, list, selected, doneLog, lastKey, openDisk>>
launchVars == <<checked, notes, fgStep, tuiActive, tuiLog, launches>>
flowVars == <<fpc, sessionFiles, disk, flowSettings, pickerVars, launchVars>>
vars == <<settingsVars, extractVars, cmdVars, flowVars>>

-----------------------------------------------------------------------------
(* JavaScript values and string primitives *)

\* `undefined` (an absent property, an unset environment variable)
Undef == <<"<undefined>">>

\* JSON `null`
Null == <<"<null>">>

\* JS truthiness of a string-or-nullish value: undefined, null and "" are falsy
Truthy(v) == v # Undef /\ v # Null /\ v # <<>>

\* a || b
OrElse(a, b) == IF Truthy(a) THEN a ELSE b

\* a ?? b
Coalesce(a, b) == IF a = Undef \/ a = Null THEN b ELSE a

IsWhite(c) == c \in {" ", "\t", "\n"}

RECURSIVE TrimStart(_)
TrimStart(s) == IF s # <<>> /\ IsWhite(Head(s)) THEN TrimStart(Tail(s)) ELSE s

RECURSIVE TrimEnd(_)
TrimEnd(s) ==
  IF s # <<>> /\ IsWhite(s[Len(s)]) THEN TrimEnd(SubSeq(s, 1, Len(s) - 1)) ELSE s

\* String.prototype.trim
Trim(s) == TrimEnd(TrimStart(s))

\* x?.trim()
OptTrim(v) == IF v = Undef \/ v = Null THEN Undef ELSE Trim(v)

\* does `pat` occur in `s` at (1-based) position i
MatchesAt(s, pat, i) ==
  /\ i + Len(pat) - 1 <= Len(s)
  /\ \A k \in 1..Len(pat) : s[i + k - 1] = pat[k]

\* String.prototype.includes
Includes(s, pat) == \E i \in 1..(Len(s) + 1) : MatchesAt(s, pat, i)

\* GetSubstitution of ECMAScript for a string pattern (no captures): expands
\* $$, $&, $` and $' in the replacement text; any other $ is literal.
RECURSIVE GetSubstitution(_, _, _, _, _)
GetSubstitution(matched, str, position, replacement, i) ==
  IF i > Len(replacement) THEN <<>>
  ELSE IF replacement[i] = "$" /\ i < Len(replacement)
    THEN LET n == replacement[i + 1] IN
      IF n = "$" THEN <<"$">> \o GetSubstitution(matched, str, position, replacement, i + 2)
      ELSE IF n = "&" THEN matched \o GetSubstitution(matched, str, position, replacement, i + 2)
      ELSE IF n = "`"
        THEN SubSeq(str, 1, position - 1)
               \o GetSubstitution(matched, str, position, replacement, i + 2)
      ELSE IF n = "'"
        THEN SubSeq(str, position + Len(matched), Len(str))
               \o GetSubstitution(matched, str, position, replacement, i + 2)
      ELSE <<"$">> \o GetSubstitution(matched, str, position, replacement, i + 1)
  ELSE <<replacement[i]>> \o GetSubstitution(matched, str, position, replacement, i + 1)

RECURSIVE ReplaceAllFrom(_, _, _, _)
ReplaceAllFrom(str, search, replacement, i) ==
  IF i > Len(str) THEN <<>>
  ELSE IF MatchesAt(str, search, i)
    THEN GetSubstitution(search, str, i, replacement, 1)
           \o ReplaceAllFrom(str, search, replacement, i + Len(search))
  ELSE <<str[i]>> \o ReplaceAllFrom(str, search, replacement, i + 1)

\* String.prototype.replaceAll(searchString, replaceString), searchString non-empty
ReplaceAll(str, search, replacement) == ReplaceAllFrom(str, search, replacement, 1)

-----------------------------------------------------------------------------
(* shellEscape, buildOpenCommand *)

FilePlaceholder == <<"{", "f", "i", "l", "e", "}">>
CwdPlaceholder == <<"{", "c", "w", "d", "}">>
DefaultEditor == <<"v", "i">>

\* arg.replace(/'/g, `"'"'`): each single quote becomes the four characters "'"'
RECURSIVE EscapeQuotes(_)
EscapeQuotes(arg) ==
  IF arg = <<>> THEN <<>>
  ELSE IF Head(arg) = "'" THEN <<"\"", "'", "\"", "'">> \o EscapeQuotes(Tail(arg))
  ELSE <<Head(arg)>> \o EscapeQuotes(Tail(arg))

shellEscape(arg) == <<"'">> \o EscapeQuotes(arg) \o <<"'">>

\* the chained .replaceAll calls of buildOpenCommand
SubstitutePlaceholders(template, filePath, cwd) ==
  ReplaceAll(ReplaceAll(template, FilePlaceholder, shellEscape(filePath)),
             CwdPlaceholder, shellEscape(cwd))

\* in: [openCommand, filePath, cwd, VISUAL, EDITOR]
CommandTemplate(in) ==
  LET editor == OrElse(in.VISUAL, OrElse(in.EDITOR, DefaultEditor))
  IN OrElse(OptTrim(in.openCommand), editor \o <<" ">> \o FilePlaceholder)

buildOpenCommand(in) ==
  LET template == CommandTemplate(in)
      templateMentionsFile == Includes(template, FilePlaceholder)
      cmd == SubstitutePlaceholders(template, in.filePath, in.cwd)
  IN IF ~templateMentionsFile THEN cmd \o <<" ">> \o shellEscape(in.filePath) ELSE cmd

-----------------------------------------------------------------------------
(* Inputs of buildOpenCommand *)

\* settings.openCommand values: unset, with and without placeholders,
\* padded with blanks, blank only
OpenCommands ==
  { Undef,
    <<"e", " ", "{", "f", "i", "l", "e", "}">>,
    <<"e">>,
    <<"t", " ", "{", "c", "w", "d", "}", " ", "{", "f", "i", "l", "e", "}">>,
    <<" ", "e", " ", "{", "f", "i", "l", "e", "}", " ">>,
    <<"{", "f", "i", "l", "e", "}", "{", "f", "i", "l", "e", "}">>,
    <<" ">> }

FilePaths ==
  { <<"a">>,
    <<"a", " ", "b">>,
    <<"i", "'", "s">>,
    <<"{", "c", "w", "d", "}">>,
    <<"a", "$">>,
    <<"$", "&">>,
    <<"$", "$", "x">> }

Cwds == { <<"/", "w">>, <<"d", "'">>, <<"{", "f", "i", "l", "e", "}">> }

Editors == { Undef, <<"n", "v">> }

CmdInputs ==
  [openCommand : OpenCommands, filePath : FilePaths, cwd : Cwds,
   VISUAL : Editors, EDITOR : Editors \cup {<<>>}]

IdleCmd == cpc = "idle" /\ cmdIn = Undef /\ command = Undef

InitCmd == cpc = "call" /\ cmdIn \in CmdInputs /\ command = Undef

\* buildOpenCommand(filePath, cwd, settings)
BuildOpenCommand ==
  /\ cpc = "call"
  /\ command' = buildOpenCommand(cmdIn)
  /\ cpc' = "built"
  /\ UNCHANGED <<cmdIn, settingsVars, extractVars, flowVars>>

-----------------------------------------------------------------------------
(* Claim C7 *)

\* one left-to-right pass over the template that inserts the escaped
\* arguments literally and never rescans what it inserted
RECURSIVE LiteralSubstitution(_, _, _, _)
LiteralSubstitution(template, filePath, cwd, i) ==
  IF i > Len(template) THEN <<>>
  ELSE IF MatchesAt(template, FilePlaceholder, i)
    THEN shellEscape(filePath)
           \o LiteralSubstitution(template, filePath, cwd, i + Len(FilePlaceholder))
  ELSE IF MatchesAt(template, CwdPlaceholder, i)
    THEN shellEscape(cwd)
           \o LiteralSubstitution(template, filePath, cwd, i + Len(CwdPlaceholder))
  ELSE <<template[i]>> \o LiteralSubstitution(template, filePath, cwd, i + 1)

ClaimedCommand(in) ==
  LET template == CommandTemplate(in)
      body == LiteralSubstitution(template, in.filePath, in.cwd, 1)
  IN IF Includes(template, FilePlaceholder) THEN body
     ELSE body \o <<" ">> \o shellEscape(in.filePath)

\* C7: for every template, path and cwd the command built is the template
\* with each {file} replaced by shellEscape(path) and each {cwd} of the
\* template replaced by shellEscape(cwd), the escaped path appended when the
\* template has no {file}; so the command contains shellEscape(path) verbatim.
C7_CommandIsLiteralSubstitution ==
  cpc = "built" =>
    /\ command = ClaimedCommand(cmdIn)
    /\ Includes(command, shellEscape(cmdIn.filePath))

HasSpecialText(s) == Includes(s, <<"$">>) \/ Includes(s, CwdPlaceholder)

\* C7, the part the code does satisfy: arguments without "$" and without the
\* text {cwd} are substituted literally
C7_PlainArgumentsSubstituted ==
  (cpc = "built" /\ ~HasSpecialText(cmdIn.filePath) /\ ~HasSpecialText(cmdIn.cwd)) =>
    /\ command = ClaimedCommand(cmdIn)
    /\ Includes(command, shellEscape(cmdIn.filePath))

-----------------------------------------------------------------------------
(* loadSettings *)

FOREGROUND == <<"f", "o", "r", "e", "g", "r", "o", "u", "n", "d">>
BACKGROUND == <<"b", "a", "c", "k", "g", "r", "o", "u", "n", "d">>
DefaultShortcut == <<"a", "l", "t", "+", "o">>

UpperLetters == <<"A", "B", "C", "D", "E", "F", "G", "H", "I", "J", "K", "L", "M",
                  "N", "O", "P", "Q", "R", "S", "T", "U", "V", "W", "X", "Y", "Z">>
LowerLetters == <<"a", "b", "c", "d", "e", "f", "g", "h", "i", "j", "k", "l", "m",
                  "n", "o", "p", "q", "r", "s", "t", "u", "v", "w", "x", "y", "z">>

LowerChar(c) ==
  IF \E k \in 1..Len(UpperLetters) : UpperLetters[k] = c
    THEN LowerLetters[CHOOSE k \in 1..Len(UpperLetters) : UpperLetters[k] = c]
    ELSE c

\* String.prototype.toLowerCase
ToLowerCase(s) == [k \in 1..Len(s) |-> LowerChar(s[k])]

\* an ExtensionSettings object; a field that is Undef is an absent property
NoSettings == [openCommand |-> Undef, openMode |-> Undef, shortcut |-> Undef]

SettingsFields == {"openCommand", "openMode", "shortcut"}

\* { ...a, ...b }: every own property of b, null included, replaces a's
Spread(a, b) == [f \in SettingsFields |-> IF b[f] # Undef THEN b[f] ELSE a[f]]

normalizeMode(value) ==
  IF value = FOREGROUND \/ value = BACKGROUND THEN value ELSE Undef

\* parsed: [key |-> "absent" | "null" | "string" | "object", obj |-> settings]
pickExtensionSettings(parsed) ==
  IF parsed.key = "object" THEN parsed.obj ELSE NoSettings

\* lines 46-53: the environment seeds `merged`
EnvLayer(e) ==
  LET envCommand == OptTrim(e.PI_OPEN_FILE_COMMAND)
      envMode == normalizeMode(OptTrim(e.PI_OPEN_FILE_MODE))
      envShortcut == OptTrim(e.PI_OPEN_FILE_SHORTCUT)
  IN [openCommand |-> IF Truthy(envCommand) THEN envCommand ELSE Undef,
      openMode |-> IF Truthy(envMode) THEN envMode ELSE Undef,
      shortcut |-> IF Truthy(envShortcut) THEN envShortcut ELSE Undef]

\* lines 62-69, one settings path.
\* file: [state |-> "missing" | "invalid" | "json", parsed |-> ...]
MergeLayer(m, file) ==
  IF file.state = "missing" THEN m
  ELSE IF file.state = "invalid" THEN m
  ELSE Spread(m, pickExtensionSettings(file.parsed))

\* lines 72-73
ApplyDefaults(m) ==
  [m EXCEPT !.openMode = Coalesce(normalizeMode(m.openMode), FOREGROUND),
            !.shortcut = ToLowerCase(OrElse(m.shortcut, DefaultShortcut))]

\* fs: <<global settings file, project settings file>>
loadSettings(e, fs) == ApplyDefaults(MergeLayer(MergeLayer(EnvLayer(e), fs[1]), fs[2]))

(* Inputs of loadSettings *)

BogusMode == <<"f", "g">>

Envs ==
  [PI_OPEN_FILE_COMMAND : {Undef, <<"e">>, <<" ">>},
   PI_OPEN_FILE_MODE : {Undef, FOREGROUND, <<" ">> \o BACKGROUND \o <<"\n">>, BogusMode},
   PI_OPEN_FILE_SHORTCUT : {Undef, <<"A", "l", "t", "+", "P">>}]

SettingsObjects ==
  [openCommand : {Undef, <<"v">>},
   openMode : {Undef, FOREGROUND, BACKGROUND, BogusMode, Null},
   shortcut : {Undef, <<"c", "t", "r", "l", "+", "K">>, <<>>}]

SettingsFileStates ==
  {[state |-> "missing", parsed |-> [key |-> "absent", obj |-> NoSettings]],
   [state |-> "invalid", parsed |-> [key |-> "absent", obj |-> NoSettings]]}
  \cup {[state |-> "json", parsed |-> [key |-> k, obj |-> NoSettings]] :
          k \in {"absent", "null", "string"}}
  \cup {[state |-> "json", parsed |-> [key |-> "object", obj |-> o]] :
          o \in SettingsObjects}

InitSettings ==
  /\ spc = "env"
  /\ env \in Envs
  /\ settingsFiles \in [1..2 -> SettingsFileStates]
  /\ merged = NoSettings

ReadEnvironment ==
  /\ spc = "env"
  /\ merged' = EnvLayer(env)
  /\ spc' = "global"
  /\ UNCHANGED <<env, settingsFiles, extractVars, cmdVars, flowVars>>

MergeGlobalSettings ==
  /\ spc = "global"
  /\ merged' = MergeLayer(merged, settingsFiles[1])
  /\ spc' = "project"
  /\ UNCHANGED <<env, settingsFiles, extractVars, cmdVars, flowVars>>

MergeProjectSettings ==
  /\ spc = "project"
  /\ merged' = MergeLayer(merged, settingsFiles[2])
  /\ spc' = "defaults"
  /\ UNCHANGED <<env, settingsFiles, extractVars, cmdVars, flowVars>>

ReturnSettings ==
  /\ spc = "defaults"
  /\ merged' = ApplyDefaults(merged)
  /\ spc' = "done"
  /\ UNCHANGED <<env, settingsFiles, extractVars, cmdVars, flowVars>>

-----------------------------------------------------------------------------
(* Claims C1, C8 *)

EnvMode == normalizeMode(OptTrim(env.PI_OPEN_FILE_MODE))
EnvCommand == OptTrim(env.PI_OPEN_FILE_COMMAND)
EnvShortcut == OptTrim(env.PI_OPEN_FILE_SHORTCUT)

\* C1: the environment has the highest precedence: a valid PI_OPEN_FILE_MODE,
\* a PI_OPEN_FILE_COMMAND and a PI_OPEN_FILE_SHORTCUT set in the environment
\* are the effective openMode, openCommand and shortcut whatever the two
\* settings files hold.
C1_EnvironmentWins ==
  spc = "done" =>
    /\ EnvMode # Undef => merged.openMode = EnvMode
    /\ Truthy(EnvCommand) => merged.openCommand = EnvCommand
    /\ Truthy(EnvShortcut) => merged.shortcut = ToLowerCase(EnvShortcut)

\* C1, what the code does instead: a field the project file sets wins, else
\* one the global file sets, and the environment comes last
FileObject(i) ==
  IF settingsFiles[i].state = "json" THEN pickExtensionSettings(settingsFiles[i].parsed)
  ELSE NoSettings

C1_ProjectThenGlobalThenEnvironment ==
  spc = "done" =>
    LET p == FileObject(2).openCommand
        g == FileObject(1).openCommand
    IN merged.openCommand = (IF p # Undef THEN p ELSE IF g # Undef THEN g
                             ELSE IF Truthy(EnvCommand) THEN EnvCommand ELSE Undef)

\* the file with an openMode that is not "foreground"/"background" removed
WithoutInvalidMode(file) ==
  IF file.state = "json" /\ file.parsed.key = "object"
       /\ file.parsed.obj.openMode # Undef
       /\ normalizeMode(file.parsed.obj.openMode) = Undef
    THEN [file EXCEPT !.parsed.obj.openMode = Undef]
    ELSE file

\* C8: an openMode in a settings file that is not exactly "foreground" or
\* "background" does not take effect: the effective openMode is the one
\* loadSettings returns with that field absent from the file.
C8_InvalidModeIsIgnored ==
  spc = "done" =>
    merged.openMode =
      loadSettings(env, [i \in 1..2 |-> WithoutInvalidMode(settingsFiles[i])]).openMode

-----------------------------------------------------------------------------
(* getSessionEditedFiles *)

\* a bound on the entries of the branch and on the blocks scanned in all
MaxEntries == 2
MaxBlocks == 3

EDIT == <<"e", "d", "i", "t">>
WRITE == <<"w", "r", "i", "t", "e">>
READ == <<"r", "e", "a", "d">>

\* an arguments object; `defined` is FALSE for an absent (nullish) property
NoArgs == [defined |-> FALSE, path |-> Undef]
Args(p) == [defined |-> TRUE, path |-> p]

\* block.function.arguments: a string; `valid` tells whether JSON.parse
\* accepts it and `value` is what it parses to
NoJson == [defined |-> FALSE, valid |-> FALSE, value |-> NoArgs]
Json(p) == [defined |-> TRUE, valid |-> TRUE, value |-> Args(p)]
MalformedJson == [defined |-> TRUE, valid |-> FALSE, value |-> NoArgs]

Block(ty, nm, fnNm, ar, inp, fnAr) ==
  [isObject |-> TRUE, type |-> ty, name |-> nm, fnName |-> fnNm,
   arguments |-> ar, input |-> inp, fnArguments |-> fnAr]

\* the content blocks the scan is fed
Blocks ==
  { Block("toolCall", EDIT, Undef, Args(<<"a">>), NoArgs, NoJson),
    Block("tool_use", WRITE, Undef, NoArgs, Args(<<"@", "a">>), NoJson),
    Block("tool_call", Undef, EDIT, NoArgs, NoArgs, Json(<<"b">>)),
    Block("toolCall", WRITE, Undef, Args(<<"@", "@", "a">>), NoArgs, NoJson),
    Block("toolCall", READ, Undef, Args(<<"c">>), NoArgs, NoJson),
    Block("text", EDIT, Undef, Args(<<"c">>), NoArgs, NoJson),
    Block("tool_call", Undef, WRITE, NoArgs, NoArgs, MalformedJson),
    Block("tool_call", Undef, READ, NoArgs, NoArgs, MalformedJson),
    Block("toolCall", EDIT, Undef, Args(<<"b">>), NoArgs, MalformedJson),
    Block("toolCall", EDIT, Undef, Args(Undef), NoArgs, NoJson),
    Block("toolCall", WRITE, Undef, Args(<<>>), NoArgs, NoJson),
    [Block("text", Undef, Undef, NoArgs, NoArgs, NoJson) EXCEPT !.isObject = FALSE] }

\* a session entry without its content: entry.type, whether entry.message
\* is set, message.role, and whether message.content is an array
Entry(ty, hasMsg, rl, isArray) ==
  [type |-> ty, hasMessage |-> hasMsg, role |-> rl, contentIsArray |-> isArray]

Entries ==
  { Entry("message", TRUE, "assistant", TRUE),
    Entry("message", TRUE, "assistant", FALSE),
    Entry("message", TRUE, "user", TRUE),
    Entry("message", FALSE, "assistant", TRUE),
    Entry("custom", TRUE, "assistant", TRUE) }

\* lines 96-99: the entry is skipped unless all three tests pass
EntryIsScanned(e) ==
  /\ e.type = "message"
  /\ e.hasMessage /\ e.role = "assistant"
  /\ e.contentIsArray

\* line 104
IsToolCallType(t) == ~(t # "toolCall" /\ t # "tool_use" /\ t # "tool_call")

\* line 107 with "read" let through as well: a mutant of IsEditOrWrite
IsEditOrWriteOrRead(name) == ~(name # EDIT /\ name # WRITE /\ name # READ)

\* line 107
IsEditOrWrite(name) == ~(name # EDIT /\ name # WRITE)

\* line 106
BlockName(b) == Coalesce(b.name, Coalesce(b.fnName, <<>>))

\* line 109: [threw |-> JSON.parse threw, args |-> the arguments object]
BlockArgs(b) ==
  IF b.arguments.defined THEN [threw |-> FALSE, args |-> b.arguments]
  ELSE IF b.input.defined THEN [threw |-> FALSE, args |-> b.input]
  ELSE IF b.fnArguments.defined
    THEN IF b.fnArguments.valid
           THEN [threw |-> FALSE, args |-> b.fnArguments.value]
           ELSE [threw |-> TRUE, args |-> NoArgs]
  ELSE [threw |-> FALSE, args |-> NoArgs]

\* line 112: .replace(/^@/, "")
StripAt(p) == IF p # <<>> /\ Head(p) = "@" THEN Tail(p) ELSE p

\* lines 102-112 for one block:
\* [kind |-> "skip" | "throw" | "path", path |-> the normalized path]
ScanBlock(b) ==
  IF ~b.isObject THEN [kind |-> "skip", path |-> Undef]
  ELSE IF ~IsToolCallType(b.type) THEN [kind |-> "skip", path |-> Undef]
  ELSE IF ~IsEditOrWrite(BlockName(b)) THEN [kind |-> "skip", path |-> Undef]
  ELSE LET r == BlockArgs(b) IN
    IF r.threw THEN [kind |-> "throw", path |-> Undef]
    ELSE IF ~(r.args.defined /\ Truthy(r.args.path)) THEN [kind |-> "skip", path |-> Undef]
    ELSE [kind |-> "path", path |-> StripAt(r.args.path)]

(* What the claims say of a block, stated apart from the scan above *)

\* the path a block carries, whatever its type and tool name
CarriedPath(b) ==
  IF ~b.isObject THEN Undef
  ELSE IF b.arguments.defined THEN b.arguments.path
  ELSE IF b.input.defined THEN b.input.path
  ELSE IF b.fnArguments.defined /\ b.fnArguments.valid THEN b.fnArguments.value.path
  ELSE Undef

\* an edit/write tool call with a path
IsEditedFileCall(b) ==
  /\ b.isObject
  /\ b.type \in {"toolCall", "tool_use", "tool_call"}
  /\ (IF b.name # Undef THEN b.name ELSE b.fnName) \in {EDIT, WRITE}
  /\ CarriedPath(b) \notin {Undef, Null, <<>>}

\* a tool call whose nested arguments string is not valid JSON and that has
\* no parsed arguments beside it
IsMalformedCall(b) ==
  /\ b.isObject
  /\ b.type \in {"toolCall", "tool_use", "tool_call"}
  /\ ~b.arguments.defined /\ ~b.input.defined
  /\ b.fnArguments.defined /\ ~b.fnArguments.valid

NormalizedPath(b) ==
  LET p == CarriedPath(b) IN IF Head(p) = "@" THEN SubSeq(p, 2, Len(p)) ELSE p

InitExtract ==
  /\ epc = "entry"
  /\ entry = Undef /\ curBlock = Undef
  /\ blocksLeft = 0 /\ scanned = <<0, 0>>
  /\ seen = {} /\ files = <<>>
  /\ expect = <<>> /\ ignored = {} /\ malformedSeen = FALSE

\* lines 95-99, an entry the loop skips with `continue`; the paths its
\* blocks carry are recorded as ignored
SkipEntry ==
  /\ epc = "entry"
  /\ scanned[1] < MaxEntries
  /\ \E e \in Entries, b \in Blocks :
       /\ ~EntryIsScanned(e)
       /\ entry' = e
       /\ ignored' = IF CarriedPath(b) \in {Undef, Null, <<>>} THEN ignored
                     ELSE ignored \cup {NormalizedPath(b)}
  /\ scanned' = <<scanned[1] + 1, scanned[2]>>
  /\ UNCHANGED <<epc, blocksLeft, curBlock, seen, files, expect, malformedSeen>>
  /\ UNCHANGED <<settingsVars, cmdVars, flowVars>>

\* lines 95-101, an entry whose content is scanned: n is its number of blocks
EnterEntry ==
  /\ epc = "entry"
  /\ scanned[1] < MaxEntries
  /\ \E e \in Entries, n \in 0..(MaxBlocks - scanned[2]) :
       /\ EntryIsScanned(e)
       /\ entry' = e
       /\ blocksLeft' = n
       /\ epc' = IF n = 0 THEN "entry" ELSE "block"
  /\ scanned' = <<scanned[1] + 1, scanned[2]>>
  /\ UNCHANGED <<curBlock, seen, files, expect, ignored, malformedSeen>>
  /\ UNCHANGED <<settingsVars, cmdVars, flowVars>>

\* lines 101-117, one iteration of the inner loop
ScanNextBlock ==
  /\ epc = "block"
  /\ \E b \in Blocks :
       LET r == ScanBlock(b) IN
       /\ curBlock' = b
       /\ IF r.kind = "path" /\ r.path \notin seen
            THEN seen' = seen \cup {r.path} /\ files' = Append(files, r.path)
            ELSE UNCHANGED <<seen, files>>
       /\ epc' = IF r.kind = "throw" THEN "thrown"
                 ELSE IF blocksLeft = 1 THEN "entry" ELSE "block"
       /\ expect' = IF IsEditedFileCall(b) THEN Append(expect, NormalizedPath(b))
                    ELSE expect
       /\ ignored' = IF IsEditedFileCall(b) \/ CarriedPath(b) \in {Undef, Null, <<>>}
                       THEN ignored
                       ELSE ignored \cup {NormalizedPath(b)}
       /\ malformedSeen' = (malformedSeen \/ IsMalformedCall(b))
  /\ blocksLeft' = blocksLeft - 1
  /\ scanned' = <<scanned[1], scanned[2] + 1>>
  /\ UNCHANGED entry
  /\ UNCHANGED <<settingsVars, cmdVars, flowVars>>

\* line 120, at the end of the branch
ReturnFiles ==
  /\ epc = "entry"
  /\ epc' = "done"
  /\ UNCHANGED <<entry, blocksLeft, scanned, curBlock, seen, files, expect, ignored,
                 malformedSeen>>
  /\ UNCHANGED <<settingsVars, cmdVars, flowVars>>

-----------------------------------------------------------------------------
(* Claims C2, C3, C9 *)

Range(s) == {s[k] : k \in 1..Len(s)}

\* the first occurrences of a sequence, in order
RECURSIVE FirstOccurrences(_)
FirstOccurrences(s) ==
  IF s = <<>> THEN <<>>
  ELSE LET front == FirstOccurrences(SubSeq(s, 1, Len(s) - 1))
           last == s[Len(s)]
       IN IF last \in Range(front) THEN front ELSE Append(front, last)

\* C2: for any branch the extractor returns a list that holds each distinct
\* normalized path exactly once, in the order of first occurrence.
C2_ReturnsEachPathOnceInFirstSeenOrder ==
  epc \in {"done", "thrown"} => (epc = "done" /\ files = FirstOccurrences(expect))

\* C2 on the runs that return: the list is the first occurrences of the
\* edit/write paths scanned
C2_ReturnedListIsFirstOccurrences ==
  epc # "thrown" => files = FirstOccurrences(expect)

\* C3: a tool call with malformed arguments is skipped: no error leaves the
\* extractor and every valid edit/write path before or after it is returned.
C3_MalformedCallIsSkipped ==
  malformedSeen =>
    /\ epc # "thrown"
    /\ epc = "done" => \A p \in Range(expect) : p \in Range(files)

\* C9: every path returned comes from an edit or write tool-call block of an
\* assistant message entry; a block with another tool name, a block that is
\* no tool call and a block of another entry never contribute a path.
C9_OnlyEditAndWriteCallsContribute ==
  \A p \in Range(files) : p \in Range(expect)

\* a finished scan that returned paths and passed over a path carried by a
\* block that is no edit/write call of an assistant message
C9_Witness ==
  /\ epc = "done"
  /\ files # <<>>
  /\ \E p \in ignored : p \notin Range(files)

-----------------------------------------------------------------------------
(* rankCandidates, the picker view *)

\* a bound on the length of the filter typed into the picker
MaxFilter == 2

\* fuzzysort's result limit
RankLimit == 200

Min(a, b) == IF a < b THEN a ELSE b

\* path.basename: what follows the last "/"
RECURSIVE basename(_)
basename(p) ==
  IF \E k \in 1..Len(p) : p[k] = "/"
    THEN basename(SubSeq(p, (CHOOSE k \in 1..Len(p) : p[k] = "/") + 1, Len(p)))
    ELSE p

\* lines 178-181
Candidate(path) == [path |-> path, search |-> basename(path) \o <<" ">> \o path]

RECURSIVE SelectSeq2(_, _)
SelectSeq2(s, keep) ==
  IF s = <<>> THEN <<>>
  ELSE IF Head(s) \in keep THEN <<Head(s)>> \o SelectSeq2(Tail(s), keep)
  ELSE SelectSeq2(Tail(s), keep)

\* lines 176-181: files.filter(existsSync).map(...)
BuildCandidates(fileList, onDisk) ==
  LET kept == SelectSeq2(fileList, onDisk)
  IN [k \in 1..Len(kept) |-> Candidate(kept[k])]

\* is `q` a subsequence of `t`
RECURSIVE IsSubsequence(_, _)
IsSubsequence(q, t) ==
  IF q = <<>> THEN TRUE
  ELSE IF t = <<>> THEN FALSE
  ELSE IF Head(q) = Head(t) THEN IsSubsequence(Tail(q), Tail(t))
  ELSE IsSubsequence(q, Tail(t))

\* the blank-separated terms of a query
RECURSIVE Terms(_)
Terms(q) ==
  LET t == TrimStart(q) IN
  IF t = <<>> THEN {}
  ELSE LET stop == IF \E k \in 1..Len(t) : IsWhite(t[k])
                     THEN (CHOOSE k \in 1..Len(t) :
                             IsWhite(t[k]) /\ \A j \in 1..(k - 1) : ~IsWhite(t[j]))
                     ELSE Len(t) + 1
       IN {SubSeq(t, 1, stop - 1)} \cup Terms(SubSeq(t, stop, Len(t)))

\* fuzzysort: every term of the query occurs in the target, letter by letter
\* in order, case ignored
FuzzyMatches(query, target) ==
  \A term \in Terms(query) : IsSubsequence(ToLowerCase(term), ToLowerCase(target))

Orderings(S) ==
  {f \in [1..Cardinality(S) -> S] : \A i, j \in 1..Cardinality(S) : i # j => f[i] # f[j]}

\* fuzzysort.go(query, candidates, {key: "search", limit}): the matching
\* candidates in some order of match quality, at most `limit` of them
FuzzysortGo(query, cands, limit) ==
  LET hits == {cands[k] : k \in {j \in 1..Len(cands) : FuzzyMatches(query, cands[j].search)}}
  IN {SubSeq(r, 1, Min(limit, Len(r))) : r \in Orderings(hits)}

\* lines 151-155: the set of rankings fuzzysort may return
rankCandidates(cands, query) ==
  IF Trim(query) = <<>> THEN {cands} ELSE FuzzysortGo(query, cands, RankLimit)

\* lines 157-162
toSelectItems(cands) ==
  [k \in 1..Len(cands) |-> [value |-> cands[k].path, label |-> cands[k].path]]

\* new SelectList(items, ...): the first item is highlighted
NewSelectList(items) == [items |-> items, selectedIndex |-> 0]

\* lines 204-211: the lists buildList may return for the current filter
buildList(cands, flt) ==
  {NewSelectList(toSelectItems(ranked)) : ranked \in rankCandidates(cands, flt)}

(* Key input: `data` is the sequence of characters the terminal sent *)

KeyBackspace == <<"DEL">>
KeyCtrlU == <<"NAK">>
KeyUp == <<"ESC", "[", "A">>
KeyDown == <<"ESC", "[", "B">>
KeyEnter == <<"CR">>
KeyEscape == <<"ESC">>
KeyTab == <<"TAB">>

FilterChars == {"a", "B", " "}

Keys ==
  {KeyBackspace, KeyCtrlU, KeyUp, KeyDown, KeyEnter, KeyEscape, KeyTab}
    \cup {<<c>> : c \in FilterChars}

\* the character codes that line 242 compares
CharCode(c) ==
  CASE c = "TAB" -> 9
    [] c = "CR" -> 13
    [] c = "NAK" -> 21
    [] c = "ESC" -> 27
    [] c = " " -> 32
    [] c = "B" -> 66
    [] c = "a" -> 97
    [] c = "DEL" -> 127
    [] OTHER -> 64

\* line 242 without the comparison with " ": a mutant of IsPrintable
IsPrintableAnySingleChar(data) == Len(data) = 1 /\ data # <<"DEL">>

\* data.length === 1 && data >= " " && data !== "\x7f"
IsPrintable(data) ==
  Len(data) = 1 /\ CharCode(data[1]) >= CharCode(" ") /\ data # <<"DEL">>

\* SelectList.handleInput: up and down move the highlight and wrap around
\* (nothing moves in an empty list), enter reports the highlighted item if
\* there is one, escape cancels.
\* [list |-> the list after the key, done |-> the values passed to done]
SelectListHandleInput(l, data) ==
  LET n == Len(l.items) IN
  IF data = KeyUp
    THEN [list |-> [l EXCEPT !.selectedIndex =
                      IF n = 0 THEN 0
                      ELSE IF l.selectedIndex = 0 THEN n - 1 ELSE l.selectedIndex - 1],
          done |-> <<>>]
  ELSE IF data = KeyDown
    THEN [list |-> [l EXCEPT !.selectedIndex =
                      IF n = 0 THEN 0
                      ELSE IF l.selectedIndex = n - 1 THEN 0 ELSE l.selectedIndex + 1],
          done |-> <<>>]
  ELSE IF data = KeyEnter
    THEN [list |-> l,
          done |-> IF l.selectedIndex + 1 \in 1..n
                     THEN <<l.items[l.selectedIndex + 1].value>>
                     ELSE <<>>]
  ELSE IF data = KeyEscape THEN [list |-> l, done |-> <<Null>>]
  ELSE [list |-> l, done |-> <<>>]

\* lines 227-251 with line 231 left out, so that backspace keeps the list
\* built for the longer filter: a mutant of handleInput
handleInputBackspaceKeepsList(cands, flt, l, data) ==
  IF data = KeyBackspace
    THEN {[filter |-> SubSeq(flt, 1, Len(flt) - 1), list |-> l, done |-> <<>>]}
  ELSE IF data = KeyCtrlU
    THEN {[filter |-> <<>>, list |-> nl, done |-> <<>>] : nl \in buildList(cands, <<>>)}
  ELSE IF IsPrintable(data)
    THEN LET f == flt \o data
         IN {[filter |-> f, list |-> nl, done |-> <<>>] : nl \in buildList(cands, f)}
  ELSE LET r == SelectListHandleInput(l, data)
       IN {[filter |-> flt, list |-> r.list, done |-> r.done]}

\* lines 227-251: the picker states one input may lead to.
\* [filter, list, done |-> the values passed to done by this input]
handleInput(cands, flt, l, data) ==
  IF data = KeyBackspace
    THEN LET f == SubSeq(flt, 1, Len(flt) - 1)
         IN {[filter |-> f, list |-> nl, done |-> <<>>] : nl \in buildList(cands, f)}
  ELSE IF data = KeyCtrlU
    THEN {[filter |-> <<>>, list |-> nl, done |-> <<>>] : nl \in buildList(cands, <<>>)}
  ELSE IF IsPrintable(data)
    THEN LET f == flt \o data
         IN {[filter |-> f, list |-> nl, done |-> <<>>] : nl \in buildList(cands, f)}
  ELSE LET r == SelectListHandleInput(l, data)
       IN {[filter |-> flt, list |-> r.list, done |-> r.done]}

-----------------------------------------------------------------------------
(* runOpenCommand, openFilePicker *)

\* lines 123-144: the process runOpenCommand starts
runOpenCommand(filePath, cwd, settings) ==
  LET cmd == buildOpenCommand([openCommand |-> settings.openCommand, filePath |-> filePath,
                               cwd |-> cwd, VISUAL |-> Undef, EDITOR |-> Undef])
      mode == Coalesce(settings.openMode, FOREGROUND)
  IN IF mode = BACKGROUND
       THEN [call |-> "spawn", detached |-> TRUE, path |-> filePath, command |-> cmd]
       ELSE [call |-> "spawnSync", detached |-> FALSE, path |-> filePath, command |-> cmd]

\* lines 255-265 without the existsSync test of lines 256-259: a mutant of
\* AfterPickerOutcome
AfterPickerOutcomeWithoutExistsCheck(sel, onDisk, settings) ==
  IF ~Truthy(sel) THEN "cancelled"
  ELSE IF Coalesce(settings.openMode, FOREGROUND) = BACKGROUND THEN "background"
  ELSE "foreground"

\* lines 255-265: what openFilePicker does with the picker's result
AfterPickerOutcome(sel, onDisk, settings) ==
  IF ~Truthy(sel) THEN "cancelled"
  ELSE IF sel \notin onDisk THEN "stale"
  ELSE IF Coalesce(settings.openMode, FOREGROUND) = BACKGROUND THEN "background"
  ELSE "foreground"

\* lines 268-273 with the command run before the TUI is stopped: a mutant of
\* ForegroundView
ForegroundViewRunsBeforeStop ==
  <<"clear", "runOpenCommand", "tui.stop", "tui.start", "requestRender(true)", "done">>

\* lines 268-273: the statements of the foreground launch view, in order
ForegroundView == <<"tui.stop", "clear", "runOpenCommand", "tui.start", "requestRender(true)", "done">>

(* Inputs of openFilePicker *)

PathAB == <<"/", "a", "b">>
PathB == <<"x", "/", "b">>
PathC == <<"c">>

\* what getSessionEditedFiles returned: distinct paths
SessionFileLists ==
  {<<>>, <<PathC>>, <<PathAB, PathB>>, <<PathB, PathAB, PathC>>}

FlowCwd == <<"/", "w">>

\* what loadSettings returned: openMode is one of the two modes
FlowSettings ==
  {[openCommand |-> Undef, openMode |-> m, shortcut |-> DefaultShortcut] :
     m \in {FOREGROUND, BACKGROUND}}

NoList == [items |-> <<>>, selectedIndex |-> 0]
NoCheck == [path |-> Undef, existed |-> FALSE]
Note(msg, level) == [message |-> msg, level |-> level]

IdleFlow ==
  /\ fpc = "idle" /\ sessionFiles = <<>> /\ disk = {} /\ flowSettings = NoSettings
  /\ candidates = <<>> /\ filter = <<>> /\ list = NoList /\ selected = Undef
  /\ doneLog = <<>> /\ lastKey = Undef /\ openDisk = {} /\ checked = NoCheck
  /\ notes = <<>> /\ fgStep = 0 /\ tuiActive = TRUE /\ tuiLog = <<>> /\ launches = <<>>

InitFlow ==
  /\ fpc = "start"
  /\ sessionFiles \in SessionFileLists
  /\ disk \in SUBSET {PathAB, PathB, PathC}
  /\ flowSettings \in FlowSettings
  /\ candidates = <<>> /\ filter = <<>> /\ list = NoList /\ selected = Undef
  /\ doneLog = <<>> /\ lastKey = Undef /\ openDisk = {} /\ checked = NoCheck
  /\ notes = <<>> /\ fgStep = 0 /\ tuiActive = TRUE /\ tuiLog = <<>> /\ launches = <<>>

FlowFrame == UNCHANGED <<sessionFiles, flowSettings, settingsVars, extractVars, cmdVars>>

\* lines 170-173
NotifyNoFiles ==
  /\ fpc = "start"
  /\ Len(sessionFiles) = 0
  /\ notes' = Append(notes, Note("No files edited by the agent in this session", "warning"))
  /\ fpc' = "end"
  /\ UNCHANGED <<disk, pickerVars, checked, fgStep, tuiActive, tuiLog, launches>>
  /\ FlowFrame

\* lines 176-186
NotifyNoExisting ==
  /\ fpc = "start"
  /\ Len(sessionFiles) # 0
  /\ Len(BuildCandidates(sessionFiles, disk)) = 0
  /\ notes' = Append(notes, Note("No existing edited files to open", "warning"))
  /\ fpc' = "end"
  /\ UNCHANGED <<disk, pickerVars, checked, fgStep, tuiActive, tuiLog, launches>>
  /\ FlowFrame

\* lines 176-216: the picker view is created with an empty filter
OpenPicker ==
  /\ fpc = "start"
  /\ Len(sessionFiles) # 0
  /\ Len(BuildCandidates(sessionFiles, disk)) # 0
  /\ candidates' = BuildCandidates(sessionFiles, disk)
  /\ openDisk' = disk
  /\ filter' = <<>>
  /\ list' \in buildList(candidates', <<>>)
  /\ fpc' = "picker"
  /\ UNCHANGED <<disk, selected, doneLog, lastKey, launchVars>>
  /\ FlowFrame

\* lines 227-251: one input is delivered to the picker; a call of `done`
\* resolves the picker and releases the view
PickerInput ==
  /\ fpc = "picker"
  /\ \E data \in Keys :
       \E nxt \in handleInput(candidates, filter, list, data) :
         /\ Len(nxt.filter) <= MaxFilter
         /\ lastKey' = data
         /\ filter' = nxt.filter
         /\ list' = nxt.list
         /\ doneLog' = doneLog \o nxt.done
         /\ IF nxt.done # <<>>
              THEN selected' = nxt.done[1] /\ fpc' = "resolved"
              ELSE UNCHANGED <<selected, fpc>>
  /\ UNCHANGED <<disk, candidates, openDisk, launchVars>>
  /\ FlowFrame

\* another process deletes a file
DiskDelete ==
  /\ fpc \in {"picker", "resolved", "foreground"}
  /\ \E p \in disk : disk' = disk \ {p}
  /\ UNCHANGED <<fpc, pickerVars, launchVars>>
  /\ FlowFrame

\* line 255
ReturnCancelled ==
  /\ fpc = "resolved"
  /\ AfterPickerOutcome(selected, disk, flowSettings) = "cancelled"
  /\ fpc' = "end"
  /\ UNCHANGED <<disk, pickerVars, launchVars>>
  /\ FlowFrame

\* lines 256-259
WarnStale ==
  /\ fpc = "resolved"
  /\ AfterPickerOutcome(selected, disk, flowSettings) = "stale"
  /\ checked' = [path |-> selected, existed |-> selected \in disk]
  /\ notes' = Append(notes, Note(<<"File no longer exists: ">> \o selected, "warning"))
  /\ fpc' = "end"
  /\ UNCHANGED <<disk, pickerVars, fgStep, tuiActive, tuiLog, launches>>
  /\ FlowFrame

\* lines 261-265
LaunchBackground ==
  /\ fpc = "resolved"
  /\ AfterPickerOutcome(selected, disk, flowSettings) = "background"
  /\ checked' = [path |-> selected, existed |-> selected \in disk]
  /\ launches' = Append(launches, [process |-> runOpenCommand(selected, FlowCwd, flowSettings),
                                   tuiActive |-> tuiActive])
  /\ notes' = Append(notes, Note("Launched open command in background", "info"))
  /\ fpc' = "end"
  /\ UNCHANGED <<disk, pickerVars, fgStep, tuiActive, tuiLog>>
  /\ FlowFrame

\* line 267: the foreground launch view is created
EnterForegroundView ==
  /\ fpc = "resolved"
  /\ AfterPickerOutcome(selected, disk, flowSettings) = "foreground"
  /\ checked' = [path |-> selected, existed |-> selected \in disk]
  /\ fgStep' = 1
  /\ fpc' = "foreground"
  /\ UNCHANGED <<disk, pickerVars, notes, tuiActive, tuiLog, launches>>
  /\ FlowFrame

AtStatement(name) == fpc = "foreground" /\ ForegroundView[fgStep] = name

\* line 268
TuiStop ==
  /\ AtStatement("tui.stop")
  /\ tuiActive' = FALSE
  /\ tuiLog' = Append(tuiLog, "stop")
  /\ fgStep' = fgStep + 1
  /\ UNCHANGED <<fpc, disk, pickerVars, checked, notes, launches>>
  /\ FlowFrame

\* line 269
ClearScreen ==
  /\ AtStatement("clear")
  /\ tuiLog' = Append(tuiLog, "clear")
  /\ fgStep' = fgStep + 1
  /\ UNCHANGED <<fpc, disk, pickerVars, checked, notes, tuiActive, launches>>
  /\ FlowFrame

\* line 270: spawnSync returns when the command has exited
RunForeground ==
  /\ AtStatement("runOpenCommand")
  /\ launches' = Append(launches, [process |-> runOpenCommand(selected, FlowCwd, flowSettings),
                                   tuiActive |-> tuiActive])
  /\ tuiLog' = Append(tuiLog, "run")
  /\ fgStep' = fgStep + 1
  /\ UNCHANGED <<fpc, disk, pickerVars, checked, notes, tuiActive>>
  /\ FlowFrame

\* line 271
TuiStart ==
  /\ AtStatement("tui.start")
  /\ tuiActive' = TRUE
  /\ tuiLog' = Append(tuiLog, "start")
  /\ fgStep' = fgStep + 1
  /\ UNCHANGED <<fpc, disk, pickerVars, checked, notes, launches>>
  /\ FlowFrame

\* line 272
RequestFullRender ==
  /\ AtStatement("requestRender(true)")
  /\ tuiLog' = Append(tuiLog, "redraw")
  /\ fgStep' = fgStep + 1
  /\ UNCHANGED <<fpc, disk, pickerVars, checked, notes, tuiActive, launches>>
  /\ FlowFrame

\* line 273
ForegroundDone ==
  /\ AtStatement("done")
  /\ fpc' = "end"
  /\ UNCHANGED <<disk, pickerVars, launchVars>>
  /\ FlowFrame

-----------------------------------------------------------------------------
(* Claims C4, C5, C6, C10 *)

IsPrefix(s, t) == Len(s) <= Len(t) /\ SubSeq(t, 1, Len(s)) = s

ForegroundOrder == <<"stop", "clear", "run", "start", "redraw">>

\* C4: in foreground mode the TUI is stopped, the screen cleared, the command
\* run to completion, the TUI started again and a full redraw requested, in
\* this order; the command never runs while the TUI is active and the TUI is
\* resumed once the launch is over.
C4_ForegroundLaunchOrder ==
  /\ IsPrefix(tuiLog, ForegroundOrder)
  /\ \A k \in 1..Len(launches) :
       launches[k].process.call = "spawnSync" =>
         /\ ~launches[k].tuiActive
         /\ SubSeq(tuiLog, 1, 3) = <<"stop", "clear", "run">>
  /\ (fpc = "foreground") => (flowSettings.openMode = FOREGROUND)
  /\ (fpc = "end" /\ flowSettings.openMode = FOREGROUND /\ checked.existed) =>
       /\ tuiLog = ForegroundOrder
       /\ tuiActive
       /\ Len(launches) = 1 /\ launches[1].process.call = "spawnSync"

\* a foreground launch that ran to its end
C4_Witness ==
  /\ fpc = "end"
  /\ flowSettings.openMode = FOREGROUND
  /\ tuiLog = ForegroundOrder
  /\ Len(launches) = 1

CandidatePaths == {candidates[k].path : k \in 1..Len(candidates)}

\* the input delivered ends the picker: escape, or enter on a list with items
EndsPicker(data, l) == data = KeyEscape \/ (data = KeyEnter /\ l.items # <<>>)

C5_DoneAtMostOnce ==
  /\ Len(doneLog) <= 1
  /\ fpc = "picker" => doneLog = <<>>
  /\ fpc \in {"resolved", "foreground"} => Len(doneLog) = 1
  /\ doneLog # <<>> =>
       \/ lastKey = KeyEscape /\ doneLog[1] = Null
       \/ lastKey = KeyEnter /\ doneLog[1] \in CandidatePaths

\* an input step of the picker (a deletion on disk is the only other step
\* while the picker is open)
PickerStep == fpc = "picker" /\ disk' = disk

C5_DoneOnEnterOrEscape ==
  (PickerStep /\ EndsPicker(lastKey', list)) => (Len(doneLog') = 1 /\ fpc' = "resolved")

C6_StaleSelectionNotLaunched ==
  /\ \A k \in 1..Len(launches) :
       launches[k].process.path = checked.path /\ checked.existed
  /\ fpc = "foreground" => checked.path = selected /\ checked.existed
  /\ (checked.path # Undef /\ ~checked.existed) =>
       /\ launches = <<>>
       /\ tuiLog = <<>>
       /\ fpc = "end"
       /\ Note(<<"File no longer exists: ">> \o checked.path, "warning") \in Range(notes)
  /\ (fpc = "end" /\ Truthy(selected)) => checked.path = selected

\* the chosen file was on disk when the picker opened and gone when it resolved
C6_Witness ==
  /\ fpc = "end"
  /\ Truthy(selected)
  /\ selected \in openDisk
  /\ ~checked.existed
  /\ launches = <<>>

\* the items of the lists buildList may return for the current filter
RankedItems == {l.items : l \in buildList(candidates, filter)}

C10_ResolvesToHighlighted ==
  /\ fpc = "picker" => list.items \in RankedItems
  /\ (doneLog # <<>> /\ doneLog[1] # Null) =>
       /\ list.items \in RankedItems
       /\ list.selectedIndex + 1 \in 1..Len(list.items)
       /\ doneLog[1] = list.items[list.selectedIndex + 1].value
       /\ doneLog[1] \in Range(sessionFiles) \cap openDisk

C10_NavigationKeepsFilter ==
  /\ (PickerStep /\ lastKey' \in {KeyUp, KeyDown}) => filter' = filter
  /\ (PickerStep /\ lastKey' = KeyEnter /\ list.items = <<>>) =>
       (doneLog' = <<>> /\ fpc' = "picker")

\* C10: up and down never change the filter; a non-null result is the path
\* highlighted in the list ranked for the current filter, one of the
\* candidates that were on disk when the picker opened; enter on an empty
\* ranked list does not resolve the picker.
C10_SelectionIsHighlightedCandidate ==
  []C10_ResolvesToHighlighted /\ [][C10_NavigationKeepsFilter]_vars

\* resolved to a path after a filter edit and a move of the highlight
C10_Witness ==
  /\ doneLog # <<>>
  /\ doneLog[1] # Null
  /\ filter # <<>>
  /\ list.selectedIndex > 0

-----------------------------------------------------------------------------
(* Specifications *)

IdleSettings == spc = "idle" /\ env = Undef /\ settingsFiles = Undef /\ merged = Undef

IdleExtract ==
  /\ epc = "idle" /\ entry = Undef /\ blocksLeft = 0 /\ scanned = <<0, 0>>
  /\ curBlock = Undef /\ seen = {} /\ files = <<>> /\ expect = <<>>
  /\ ignored = {} /\ malformedSeen = FALSE

NextFlow ==
  \/ NotifyNoFiles
  \/ NotifyNoExisting
  \/ OpenPicker
  \/ PickerInput
  \/ DiskDelete
  \/ ReturnCancelled
  \/ WarnStale
  \/ LaunchBackground
  \/ EnterForegroundView
  \/ TuiStop
  \/ ClearScreen
  \/ RunForeground
  \/ TuiStart
  \/ RequestFullRender
  \/ ForegroundDone

StartFlow == InitFlow /\ IdleSettings /\ IdleExtract /\ IdleCmd

SpecFlow == StartFlow /\ [][NextFlow]_vars

NextExtract ==
  \/ SkipEntry
  \/ EnterEntry
  \/ ScanNextBlock
  \/ ReturnFiles

StartExtract == InitExtract /\ IdleSettings /\ IdleCmd /\ IdleFlow

SpecExtract == StartExtract /\ [][NextExtract]_vars

NextSettings ==
  \/ ReadEnvironment
  \/ MergeGlobalSettings
  \/ MergeProjectSettings
  \/ ReturnSettings

StartSettings == InitSettings /\ IdleExtract /\ IdleCmd /\ IdleFlow

SpecSettings == StartSettings /\ [][NextSettings]_vars

NextCmd == BuildOpenCommand

StartCmd == InitCmd /\ IdleSettings /\ IdleExtract /\ IdleFlow

SpecCmd == StartCmd /\ [][NextCmd]_vars

=============================================================================
